---- MODULE Spec2Model ----
(***************************************************************************)
(* A model of the transaction-construction core of mobilecoind:            *)
(*   - transaction/core/src/range_proofs/mod.rs : power-of-two padding and *)
(*     aggregated range proof generation / verification;                   *)
(*   - mobilecoind/src/conversions.rs : conversions between the daemon's   *)
(*     data types and their mobilecoind_api messages.                      *)
(* The functions are pure.  Each is modelled as an operator computed the   *)
(* way the code computes it, and each specification draws the arguments of *)
(* a call from bounded sets and then applies the function.                 *)
(***************************************************************************)
EXTENDS Integers, Sequences, FiniteSets, TLC

VARIABLES
    pc,           \* position of the modelled caller
    slice,        \* argument of resize_slice_to_pow2
    resized,      \* its result
    values,       \* generate_range_proofs: `values`
    serials,      \* generate_range_proofs: `serials`
    generated,    \* result of generate_range_proofs
    commitments,  \* check_range_proofs: `commitments`
    checked,      \* result of check_range_proofs
    conv,         \* conversions: the type being converted
    rust,         \* conversions: the daemon-side value that is encoded
    proto,        \* conversions: the mobilecoind_api message
    decoded,      \* conversions: result of decoding `proto`
    ledger,       \* what lies at config.ledger_db
    dir,          \* whether the directory config.ledger_db exists
    bootstrap,    \* config.ledger_db_bootstrap, with what lies there
    effects,      \* what create_or_open_ledger_db has done to its environment
    returned      \* outcome of create_or_open_ledger_db

vars == <<pc, slice, resized, values, serials, generated, commitments, checked,
          conv, rust, proto, decoded, ledger, dir, bootstrap, effects, returned>>

(***************************************************************************)
(* Bounds of the model.                                                    *)
(***************************************************************************)
\* Width, in bits, of the length type (usize), scaled down.
UsizeBits == 5
\* Longest `values` / `serials` argument of generate_range_proofs.
MaxLen == 4
\* Longest `commitments` argument of check_range_proofs.
MaxCommitments == 5
\* Longest slice of arbitrary content given to resize_slice_to_pow2.
MaxSliceLen == 4
\* BP_GENERATORS' party capacity (the supported aggregation width), scaled down.
PartyCapacity == 4

RECURSIVE Pow2(_)
Pow2(k) == IF k = 0 THEN 1 ELSE 2 * Pow2(k - 1)

\* usize::MAX
UsizeMax == Pow2(UsizeBits) - 1

SeqsUpTo(S, n) == UNION {[1..k -> S] : k \in 0..n}

(***************************************************************************)
(* Results: Ok(v), Err(e) with e a sequence of names, or a panic.           *)
(***************************************************************************)
Ok(v) == [tag |-> "Ok", val |-> v]
Err(e) == [tag |-> "Err", err |-> e]
Panic(why) == [tag |-> "Panic", why |-> why]
None == [tag |-> "None"]
Idle == [tag |-> "Idle"]

(***************************************************************************)
(* resize_slice_to_pow2                                                    *)
(***************************************************************************)
\* usize::is_power_of_two
RECURSIVE is_power_of_two(_)
is_power_of_two(n) ==
    IF n <= 0 THEN FALSE
    ELSE IF n = 1 THEN TRUE
    ELSE IF n % 2 = 1 THEN FALSE
    ELSE is_power_of_two(n \div 2)

\* The smallest power of two >= n, as a mathematical integer (1 for n = 0).
RECURSIVE next_power_of_two_from(_, _)
next_power_of_two_from(p, n) ==
    IF p >= n THEN p ELSE next_power_of_two_from(2 * p, n)

\* Faulty variant of checked_next_power_of_two: the power wraps around.
wrapping_next_power_of_two(len) ==
    Ok(next_power_of_two_from(1, len) % (UsizeMax + 1))

\* usize::checked_next_power_of_two: None when the power does not fit in usize.
checked_next_power_of_two(len) ==
    LET p == next_power_of_two_from(1, len)
    IN  IF p > UsizeMax THEN None ELSE Ok(p)

\* Vec::resize(new_len, value): truncates, or extends with clones of value.
Vec_resize(v, new_len, value) ==
    IF new_len <= Len(v)
    THEN SubSeq(v, 1, new_len)
    ELSE v \o [i \in 1..(new_len - Len(v)) |-> value]

\* Faulty variant of resize_slice_to_pow2: pads with the first entry.
pad_with_first(s) ==
    LET len == Len(s)
        npt == checked_next_power_of_two(len)
    IN  IF npt.tag = "Ok"
        THEN IF len = 0
             THEN Panic("index out of bounds")
             ELSE Ok(Vec_resize(s, len + (npt.val - len), s[1]))
        ELSE Err(<<"ResizeError">>)

\* Faulty variant of resize_slice_to_pow2: returns the slice as it is.
no_padding(s) ==
    IF Len(s) = 0 THEN Panic("index out of bounds") ELSE Ok(s)

\* fn resize_slice_to_pow2<T: Clone>(slice: &[T]) -> Result<Vec<T>, Error>
\* slice[slice.len() - 1] is evaluated before Vec::resize is called; on an
\* empty slice the subtraction overflows or the index is out of bounds, and
\* either way the call panics.
resize_slice_to_pow2(s) ==
    LET len == Len(s)
        npt == checked_next_power_of_two(len)
    IN  IF npt.tag = "Ok"
        THEN LET diff == npt.val - len
             IN  IF len = 0
                 THEN Panic("index out of bounds")
                 ELSE Ok(Vec_resize(s, len + diff, s[len]))
        ELSE Err(<<"ResizeError">>)

(***************************************************************************)
(* Pedersen commitments and the aggregated range proof (bulletproofs),     *)
(* idealised: a commitment is binding, so it is modelled by the pair it    *)
(* commits to; a proof is complete and sound, so it is modelled by the     *)
(* vector of commitments it attests.  The randomness of the prover does    *)
(* not change what a proof verifies against and is left out.               *)
(***************************************************************************)
Values == {1, 2}
Scalars == {1, 2}
\* Blinding is a wrapper around Scalar.
Blindings == [scalar : Scalars]
Blinding_as_ref(s) == s.scalar

\* PedersenGens::commit(value, blinding).compress()
Commit(v, b) == [value |-> v, blinding |-> b]
\* Bytes that are not the encoding of a curve point.
Malformed == [value |-> 0, blinding |-> 0]
IsPoint(c) == c # Malformed

\* RangeProof::prove_multiple_with_rng(bp_gens, pc_gens, transcript, values, blindings, 64, rng)
prove_multiple_with_rng(vs, bs) ==
    IF Len(vs) # Len(bs) THEN Err(<<"WrongNumBlindingFactors">>)
    ELSE IF ~is_power_of_two(Len(vs)) THEN Err(<<"InvalidAggregation">>)
    ELSE IF PartyCapacity < Len(vs) THEN Err(<<"InvalidGeneratorsLength">>)
    ELSE LET V == [i \in 1..Len(vs) |-> Commit(vs[i], bs[i])]
         IN  Ok([proof |-> [attests |-> V], commitments |-> V])

\* RangeProof::verify_multiple_with_rng(bp_gens, pc_gens, transcript, value_commitments, 64, rng)
verify_multiple_with_rng(proof, V) ==
    IF PartyCapacity < Len(V) THEN Err(<<"InvalidGeneratorsLength">>)
    ELSE IF \E i \in 1..Len(V) : ~IsPoint(V[i]) THEN Err(<<"VerificationError">>)
    ELSE IF proof.attests # V THEN Err(<<"VerificationError">>)
    ELSE Ok("unit")

\* impl From<ProofError> for Error
Error_from(r) == IF r.tag = "Err" THEN Err(<<"RangeProofError">> \o r.err) ELSE r

\* Faulty variant of generate_range_proofs: the values are padded with zeros.
generate_range_proofs_zero_padded(vs, ss) ==
    LET serials_padded == resize_slice_to_pow2(ss)
    IN  IF Len(vs) = 0 THEN Panic("index out of bounds")
        ELSE IF serials_padded.tag # "Ok" THEN serials_padded
        ELSE LET values_padded == [i \in 1..Len(serials_padded.val) |->
                                      IF i <= Len(vs) THEN vs[i] ELSE 0]
                 blindings == [i \in 1..Len(serials_padded.val) |->
                                  Blinding_as_ref(serials_padded.val[i])]
             IN  Error_from(prove_multiple_with_rng(values_padded, blindings))

\* pub fn generate_range_proofs(values, serials, rng)
generate_range_proofs(vs, ss) ==
    LET values_padded == resize_slice_to_pow2(vs)
    IN  IF values_padded.tag # "Ok" THEN values_padded
        ELSE LET serials_padded == resize_slice_to_pow2(ss)
             IN  IF serials_padded.tag # "Ok" THEN serials_padded
                 ELSE LET blindings == [i \in 1..Len(serials_padded.val) |->
                                           Blinding_as_ref(serials_padded.val[i])]
                      IN  Error_from(prove_multiple_with_rng(values_padded.val, blindings))

\* Faulty variant of check_range_proofs: the verifier is not consulted.
check_range_proofs_ignore_result(range_proof, cs) ==
    LET resized_commitments == resize_slice_to_pow2(cs)
    IN  IF resized_commitments.tag # "Ok" THEN resized_commitments
        ELSE Ok("unit")

\* pub fn check_range_proofs(range_proof, commitments, rng)
check_range_proofs(range_proof, cs) ==
    LET resized_commitments == resize_slice_to_pow2(cs)
    IN  IF resized_commitments.tag # "Ok" THEN resized_commitments
        ELSE Error_from(verify_multiple_with_rng(range_proof, resized_commitments.val))

(***************************************************************************)
(* mobilecoind and mobilecoind_api data types.                             *)
(*                                                                         *)
(* TxOut, KeyImage, PublicAddress and Tx are converted by mobilecoind_api, *)
(* outside these files: a message of one of them holds the bytes of a      *)
(* value or bytes that decode to nothing (BadBytes), encoding is faithful  *)
(* and decoding fails exactly on BadBytes.                                 *)
(***************************************************************************)
\* Longest input_list of a TxProposal.
MaxInputs == 1
\* Longest outlay_list of a TxProposal.
MaxOutlays == 2
\* Most outputs of a Tx.
MaxOutputs == 2

BadBytes == "bad"

\* impl From<&T> for mobilecoind_api::T, for T among TxOut, KeyImage, PublicAddress
External_from(x) == [bytes |-> x]

\* impl TryFrom<&mobilecoind_api::T> for T, for the same T
External_try_from(m, what) ==
    IF m.bytes = BadBytes THEN Err(<<"Encoding", what>>) ELSE Ok(m.bytes)

\* impl From<&Tx> for mobilecoind_api::Tx
Tx_from(tx) ==
    [prefix |-> [fee |-> tx.prefix.fee,
                 outputs |-> [i \in 1..Len(tx.prefix.outputs) |->
                                 External_from(tx.prefix.outputs[i])]]]

\* impl TryFrom<&mobilecoind_api::Tx> for Tx
Tx_try_from(m) ==
    IF \E i \in 1..Len(m.prefix.outputs) : m.prefix.outputs[i].bytes = BadBytes
    THEN Err(<<"Encoding", "tx">>)
    ELSE Ok([prefix |-> [fee |-> m.prefix.fee,
                         outputs |-> [i \in 1..Len(m.prefix.outputs) |->
                                         m.prefix.outputs[i].bytes]]])

\* `x as usize` of a u64 and `x as u64` of a usize: both types are 64 bits wide
\* on the daemon's targets; the model gives both the width UsizeBits.
as_usize(x) == x % (UsizeMax + 1)
as_u64(x) == x % (UsizeMax + 1)

\* iter.collect::<Result<Vec<_>, ConversionError>>(): the first error in order,
\* or the vector of the values.
Collect(results) ==
    IF \E i \in 1..Len(results) : results[i].tag = "Err"
    THEN results[CHOOSE i \in 1..Len(results) :
                    /\ results[i].tag = "Err"
                    /\ \A j \in 1..(i - 1) : results[j].tag # "Err"]
    ELSE Ok([i \in 1..Len(results) |-> results[i].val])

\* HashMap::from_iter(map.iter().map(|(key, val)| (f(*key), f(*val)))), for a
\* cast f that sends distinct keys of the map to distinct keys.
HashMap_from_iter_usize(m) ==
    [k \in {as_usize(j) : j \in DOMAIN m} |->
        as_usize(m[CHOOSE j \in DOMAIN m : as_usize(j) = k])]

HashMap_from_iter_u64(m) ==
    [k \in {as_u64(j) : j \in DOMAIN m} |->
        as_u64(m[CHOOSE j \in DOMAIN m : as_u64(j) = k])]

\* impl From<&UnspentTxOut> for mobilecoind_api::UnspentTxOut
UnspentTxOut_from(src) ==
    [tx_out |-> External_from(src.tx_out),
     subaddress_index |-> src.subaddress_index,
     key_image |-> External_from(src.key_image),
     value |-> src.value,
     attempted_spend_height |-> src.attempted_spend_height,
     attempted_spend_tombstone |-> src.attempted_spend_tombstone]

\* Faulty variant of UnspentTxOut::try_from: the two spend-attempt fields are swapped.
UnspentTxOut_try_from_swapped(src) ==
    LET tx_out == External_try_from(src.tx_out, "tx_out")
        key_image == External_try_from(src.key_image, "key_image")
    IN  IF tx_out.tag # "Ok" THEN tx_out
        ELSE IF key_image.tag # "Ok" THEN key_image
        ELSE Ok([tx_out |-> tx_out.val,
                 subaddress_index |-> src.subaddress_index,
                 key_image |-> key_image.val,
                 value |-> src.value,
                 attempted_spend_height |-> src.attempted_spend_tombstone,
                 attempted_spend_tombstone |-> src.attempted_spend_height])

\* impl TryFrom<&mobilecoind_api::UnspentTxOut> for UnspentTxOut
UnspentTxOut_try_from(src) ==
    LET tx_out == External_try_from(src.tx_out, "tx_out")
        key_image == External_try_from(src.key_image, "key_image")
    IN  IF tx_out.tag # "Ok" THEN tx_out
        ELSE IF key_image.tag # "Ok" THEN key_image
        ELSE Ok([tx_out |-> tx_out.val,
                 subaddress_index |-> src.subaddress_index,
                 key_image |-> key_image.val,
                 value |-> src.value,
                 attempted_spend_height |-> src.attempted_spend_height,
                 attempted_spend_tombstone |-> src.attempted_spend_tombstone])

\* impl From<&Outlay> for mobilecoind_api::Outlay
Outlay_from(src) ==
    [value |-> src.value, receiver |-> External_from(src.receiver)]

\* impl TryFrom<&mobilecoind_api::Outlay> for Outlay
Outlay_try_from(src) ==
    LET receiver == External_try_from(src.receiver, "receiver")
    IN  IF receiver.tag # "Ok" THEN receiver
        ELSE Ok([value |-> src.value, receiver |-> receiver.val])

\* impl From<&TxProposal> for mobilecoind_api::TxProposal
TxProposal_from(src) ==
    [input_list |-> [i \in 1..Len(src.utxos) |-> UnspentTxOut_from(src.utxos[i])],
     outlay_list |-> [i \in 1..Len(src.outlays) |-> Outlay_from(src.outlays[i])],
     tx |-> Tx_from(src.tx),
     fee |-> src.tx.prefix.fee,
     outlay_index_to_tx_out_index |->
         HashMap_from_iter_u64(src.outlay_index_to_tx_out_index)]

\* Faulty variant of the index checks: the number of entries is not compared.
TxProposal_check_indices_no_len(utxos, outlays, tx, outlay_index_to_tx_out_index) ==
    IF \E outlay_index \in DOMAIN outlay_index_to_tx_out_index :
          \/ outlay_index >= Len(outlays)
          \/ outlay_index_to_tx_out_index[outlay_index] >= Len(tx.prefix.outputs)
    THEN Err(<<"IndexOutOfBounds">>)
    ELSE Ok([utxos |-> utxos,
             outlays |-> outlays,
             tx |-> tx,
             outlay_index_to_tx_out_index |-> outlay_index_to_tx_out_index])

\* Faulty variant of the index checks: a key equal to outlays.len() passes.
TxProposal_check_indices_off_by_one(utxos, outlays, tx, outlay_index_to_tx_out_index) ==
    IF Cardinality(DOMAIN outlay_index_to_tx_out_index) # Len(outlays)
    THEN Err(<<"IndexOutOfBounds">>)
    ELSE IF \E outlay_index \in DOMAIN outlay_index_to_tx_out_index :
               \/ outlay_index > Len(outlays)
               \/ outlay_index_to_tx_out_index[outlay_index] >= Len(tx.prefix.outputs)
    THEN Err(<<"IndexOutOfBounds">>)
    ELSE Ok([utxos |-> utxos,
             outlays |-> outlays,
             tx |-> tx,
             outlay_index_to_tx_out_index |-> outlay_index_to_tx_out_index])

\* The index checks of TxProposal::try_from, on the decoded parts.
TxProposal_check_indices(utxos, outlays, tx, outlay_index_to_tx_out_index) ==
    IF Cardinality(DOMAIN outlay_index_to_tx_out_index) # Len(outlays)
    THEN Err(<<"IndexOutOfBounds">>)
    ELSE IF \E outlay_index \in DOMAIN outlay_index_to_tx_out_index :
               \/ outlay_index >= Len(outlays)
               \/ outlay_index_to_tx_out_index[outlay_index] >= Len(tx.prefix.outputs)
    THEN Err(<<"IndexOutOfBounds">>)
    ELSE Ok([utxos |-> utxos,
             outlays |-> outlays,
             tx |-> tx,
             outlay_index_to_tx_out_index |-> outlay_index_to_tx_out_index])

\* The parts of TxProposal::try_from after the fee check.
TxProposal_decode_parts(src) ==
    LET utxos == Collect([i \in 1..Len(src.input_list) |->
                             UnspentTxOut_try_from(src.input_list[i])])
        outlays == Collect([i \in 1..Len(src.outlay_list) |->
                               Outlay_try_from(src.outlay_list[i])])
        tx == Tx_try_from(src.tx)
        outlay_index_to_tx_out_index ==
            HashMap_from_iter_usize(src.outlay_index_to_tx_out_index)
    IN  IF utxos.tag # "Ok" THEN utxos
        ELSE IF outlays.tag # "Ok" THEN outlays
        ELSE IF tx.tag # "Ok" THEN tx
        ELSE TxProposal_check_indices(utxos.val, outlays.val, tx.val,
                                      outlay_index_to_tx_out_index)

\* Faulty variant of TxProposal::try_from: the fee is compared last.
TxProposal_try_from_fee_last(src) ==
    LET r == TxProposal_decode_parts(src)
    IN  IF r.tag # "Ok" THEN r
        ELSE IF src.fee # src.tx.prefix.fee THEN Err(<<"FeeMismatch">>)
        ELSE r

\* impl TryFrom<&mobilecoind_api::TxProposal> for TxProposal
TxProposal_try_from(src) ==
    IF src.fee # src.tx.prefix.fee
    THEN Err(<<"FeeMismatch">>)
    ELSE TxProposal_decode_parts(src)

(***************************************************************************)
(* Arguments of the modelled calls.                                        *)
(***************************************************************************)
ResizeIdle == slice = <<>> /\ resized = Idle

RangeIdle ==
    /\ values = <<>> /\ serials = <<>> /\ generated = Idle
    /\ commitments = <<>> /\ checked = Idle

ConvIdle ==
    /\ conv = "none" /\ rust = Idle /\ proto = Idle /\ decoded = Idle

resizeVars == <<slice, resized>>
rangeVars == <<values, serials, generated, commitments, checked>>
convVars == <<conv, rust, proto, decoded>>
ledgerVars == <<ledger, dir, bootstrap, effects, returned>>

LedgerIdle ==
    /\ ledger = [kind |-> "absent", blocks |-> 0]
    /\ dir = FALSE
    /\ bootstrap = [kind |-> "none", blocks |-> 0]
    /\ effects = {}
    /\ returned = Idle

\* Slices given to the padder: every short slice over two elements, and for
\* every length the length type can hold the slice 1, 2, ..., n.
Ramp(n) == [i \in 1..n |-> i]
Slices == SeqsUpTo({1, 2}, MaxSliceLen) \cup {Ramp(n) : n \in 0..UsizeMax}

\* Encoded points a verifier can be given.
CompressedPoints == {Commit(v, b) : v \in Values, b \in Scalars} \cup {Malformed}

\* Daemon-side values.
UnspentTxOuts ==
    {[tx_out |-> "txout1", subaddress_index |-> 123, key_image |-> "ki456",
      value |-> 789, attempted_spend_height |-> 1000,
      attempted_spend_tombstone |-> 1234],
     [tx_out |-> "txout2", subaddress_index |-> 0, key_image |-> "ki2",
      value |-> 1, attempted_spend_height |-> 0,
      attempted_spend_tombstone |-> 50]}

Outlays ==
    {[value |-> 1234, receiver |-> "addr1"], [value |-> 10, receiver |-> "addr2"]}

Fees == {10, 11}

TxOutAt(i) == IF i % 2 = 1 THEN "txout1" ELSE "txout2"

Txs ==
    {[prefix |-> [fee |-> f, outputs |-> [i \in 1..k |-> TxOutAt(i)]]] :
        f \in Fees, k \in 0..MaxOutputs}

\* Maps from outlay indices to output indices, bounds respected or not.
IndexMaps == UNION {[D -> 0..MaxOutputs] : D \in SUBSET (0..MaxOutlays)}

TxProposals ==
    [utxos : SeqsUpTo(UnspentTxOuts, MaxInputs),
     outlays : SeqsUpTo(Outlays, MaxOutlays),
     tx : Txs,
     outlay_index_to_tx_out_index : IndexMaps]

\* Messages, well-formed or not.
GoodUnspentTxOut ==
    UnspentTxOut_from(CHOOSE u \in UnspentTxOuts : u.tx_out = "txout1")

ProtoUnspentTxOuts ==
    {GoodUnspentTxOut,
     [GoodUnspentTxOut EXCEPT !.tx_out = [bytes |-> BadBytes]],
     [GoodUnspentTxOut EXCEPT !.key_image = [bytes |-> BadBytes]]}

GoodOutlay == Outlay_from(CHOOSE o \in Outlays : o.receiver = "addr1")

ProtoOutlays == {GoodOutlay, [GoodOutlay EXCEPT !.receiver = [bytes |-> BadBytes]]}

ProtoTxs ==
    {Tx_from(tx) : tx \in Txs} \cup
    {[Tx_from(tx) EXCEPT !.prefix.outputs[1] = [bytes |-> BadBytes]] :
        tx \in {t \in Txs : Len(t.prefix.outputs) >= 1}}

ProtoTxProposals ==
    [input_list : SeqsUpTo(ProtoUnspentTxOuts, MaxInputs),
     outlay_list : SeqsUpTo(ProtoOutlays, MaxOutlays),
     tx : ProtoTxs,
     fee : Fees \cup {12},
     outlay_index_to_tx_out_index : IndexMaps]

(***************************************************************************)
(* Specification of the padder alone.                                      *)
(***************************************************************************)
InitResize ==
    /\ pc = "resize"
    /\ slice \in Slices
    /\ resized = Idle
    /\ RangeIdle
    /\ ConvIdle
    /\ LedgerIdle

Resize ==
    /\ pc = "resize"
    /\ resized' = resize_slice_to_pow2(slice)
    /\ pc' = "done"
    /\ UNCHANGED <<slice, rangeVars, convVars, ledgerVars>>

NextResize == Resize

SpecResize == InitResize /\ [][NextResize]_vars

(***************************************************************************)
(* Specification of the range proof engine: a prover generates a proof,    *)
(* and a verifier checks it against a commitment list of its choosing.     *)
(***************************************************************************)
InitRange ==
    /\ pc = "generate"
    /\ values \in SeqsUpTo(Values, MaxLen)
    /\ serials \in SeqsUpTo(Blindings, MaxLen)
    /\ generated = Idle
    /\ commitments = <<>>
    /\ checked = Idle
    /\ ResizeIdle
    /\ ConvIdle
    /\ LedgerIdle

Generate ==
    /\ pc = "generate"
    /\ generated' = generate_range_proofs(values, serials)
    /\ pc' = IF generated'.tag = "Ok" THEN "check" ELSE "done"
    /\ UNCHANGED <<resizeVars, convVars, values, serials, commitments, checked, ledgerVars>>

Check ==
    /\ pc = "check"
    /\ \E cs \in SeqsUpTo(CompressedPoints, MaxCommitments) :
          /\ commitments' = cs
          /\ checked' = check_range_proofs(generated.val.proof, cs)
    /\ pc' = "done"
    /\ UNCHANGED <<resizeVars, convVars, values, serials, generated, ledgerVars>>

NextRange == Generate \/ Check

SpecRange == InitRange /\ [][NextRange]_vars

(***************************************************************************)
(* Specification of the conversions: a message is decoded, or a value is   *)
(* encoded and the message decoded back.                                   *)
(***************************************************************************)
InitConv ==
    /\ pc = "start"
    /\ ConvIdle
    /\ ResizeIdle
    /\ RangeIdle
    /\ LedgerIdle

DecodeUnspentTxOut ==
    /\ pc = "start"
    /\ \E m \in ProtoUnspentTxOuts :
          /\ proto' = m
          /\ decoded' = UnspentTxOut_try_from(m)
    /\ conv' = "UnspentTxOut"
    /\ pc' = "done"
    /\ UNCHANGED <<rust, resizeVars, rangeVars, ledgerVars>>

DecodeOutlay ==
    /\ pc = "start"
    /\ \E m \in ProtoOutlays :
          /\ proto' = m
          /\ decoded' = Outlay_try_from(m)
    /\ conv' = "Outlay"
    /\ pc' = "done"
    /\ UNCHANGED <<rust, resizeVars, rangeVars, ledgerVars>>

DecodeTxProposal ==
    /\ pc = "start"
    /\ \E m \in ProtoTxProposals :
          /\ proto' = m
          /\ decoded' = TxProposal_try_from(m)
    /\ conv' = "TxProposal"
    /\ pc' = "done"
    /\ UNCHANGED <<rust, resizeVars, rangeVars, ledgerVars>>

EncodeUnspentTxOut ==
    /\ pc = "start"
    /\ \E u \in UnspentTxOuts :
          /\ rust' = u
          /\ proto' = UnspentTxOut_from(u)
    /\ conv' = "UnspentTxOut"
    /\ pc' = "encoded"
    /\ UNCHANGED <<decoded, resizeVars, rangeVars, ledgerVars>>

EncodeOutlay ==
    /\ pc = "start"
    /\ \E o \in Outlays :
          /\ rust' = o
          /\ proto' = Outlay_from(o)
    /\ conv' = "Outlay"
    /\ pc' = "encoded"
    /\ UNCHANGED <<decoded, resizeVars, rangeVars, ledgerVars>>

EncodeTxProposal ==
    /\ pc = "start"
    /\ \E p \in TxProposals :
          /\ rust' = p
          /\ proto' = TxProposal_from(p)
    /\ conv' = "TxProposal"
    /\ pc' = "encoded"
    /\ UNCHANGED <<decoded, resizeVars, rangeVars, ledgerVars>>

DecodeBack ==
    /\ pc = "encoded"
    /\ decoded' = CASE conv = "UnspentTxOut" -> UnspentTxOut_try_from(proto)
                    [] conv = "Outlay" -> Outlay_try_from(proto)
                    [] conv = "TxProposal" -> TxProposal_try_from(proto)
    /\ pc' = "roundtrip"
    /\ UNCHANGED <<conv, rust, proto, resizeVars, rangeVars, ledgerVars>>

NextConv ==
    \/ DecodeUnspentTxOut
    \/ DecodeOutlay
    \/ DecodeTxProposal
    \/ EncodeUnspentTxOut
    \/ EncodeOutlay
    \/ EncodeTxProposal
    \/ DecodeBack

SpecConv == InitConv /\ [][NextConv]_vars

(***************************************************************************)
(* create_or_open_ledger_db (mobilecoind/src/bin/main.rs).                 *)
(*                                                                         *)
(* What lies at a path is no ledger ("absent"), a file LedgerDB::open      *)
(* refuses ("corrupt"), a ledger whose block count cannot be read          *)
(* ("unreadable"), or a ledger of some number of blocks.  Every call into  *)
(* the file system, the ledger or the network may fail; the function       *)
(* answers a failure with a panic.                                         *)
(***************************************************************************)
\* Most blocks of a ledger found on disk.
MaxBlocks == 2

Absent == [kind |-> "absent", blocks |-> 0]
Corrupt == [kind |-> "corrupt", blocks |-> 0]
Unreadable == [kind |-> "unreadable", blocks |-> 0]
LedgerOf(n) == [kind |-> "ledger", blocks |-> n]
NoBootstrap == [kind |-> "none", blocks |-> 0]

FileStates == {Absent, Corrupt, Unreadable} \cup {LedgerOf(n) : n \in 0..MaxBlocks}

\* LedgerDB::open(path).is_ok()
LedgerDB_open(l) == l.kind \in {"unreadable", "ledger"}

\* ledger_db.num_blocks()
num_blocks(l) == IF l.kind = "ledger" THEN Ok(l.blocks) ELSE Err(<<"num_blocks">>)

\* The first open finds a ledger that has blocks in it.
OpensWithBlocks ==
    /\ LedgerDB_open(ledger)
    /\ num_blocks(ledger).tag = "Ok"
    /\ num_blocks(ledger).val > 0

Panics(why) ==
    /\ returned' = Panic(why)
    /\ pc' = "done"

InitLedger ==
    /\ pc = "open"
    /\ ledger \in FileStates
    /\ dir \in BOOLEAN
    /\ (ledger.kind # "absent" => dir)
    /\ bootstrap \in {NoBootstrap} \cup FileStates
    /\ effects = {}
    /\ returned = Idle
    /\ ResizeIdle
    /\ RangeIdle
    /\ ConvIdle

\* Lines 101-116: attempt to open the ledger and see if it has anything in it.
OpenExisting ==
    /\ pc = "open"
    /\ IF OpensWithBlocks
       THEN \E txos_ok \in BOOLEAN :
               IF txos_ok
               THEN returned' = Ok(ledger) /\ pc' = "done"
               ELSE Panics("Failed getting number of txos")
       ELSE /\ pc' = IF bootstrap.kind = "none" THEN "net_mkdir" ELSE "copy_mkdir"
            /\ UNCHANGED returned
    /\ UNCHANGED <<ledger, dir, bootstrap, effects, resizeVars, rangeVars, convVars>>

\* Lines 129-134: create the directory in case it does not exist.
BootstrapMkdir ==
    /\ pc = "copy_mkdir"
    /\ IF dir
       THEN pc' = "copy" /\ UNCHANGED <<dir, effects, returned>>
       ELSE \E ok \in BOOLEAN :
               IF ok
               THEN /\ dir' = TRUE
                    /\ effects' = effects \cup {"create_dir"}
                    /\ pc' = "copy"
                    /\ UNCHANGED returned
               ELSE Panics("Failed creating directory") /\ UNCHANGED <<dir, effects>>
    /\ UNCHANGED <<ledger, bootstrap, resizeVars, rangeVars, convVars>>

\* Lines 136-143: copy the bootstrap data.mdb over the ledger's.
BootstrapCopy ==
    /\ pc = "copy"
    /\ \E ok \in BOOLEAN :
          IF ok /\ bootstrap.kind # "absent"
          THEN /\ ledger' = bootstrap
               /\ effects' = effects \cup {"copy"}
               /\ pc' = "final"
               /\ UNCHANGED returned
          ELSE Panics("Failed copying ledger") /\ UNCHANGED <<ledger, effects>>
    /\ UNCHANGED <<dir, bootstrap, resizeVars, rangeVars, convVars>>

\* Line 151: std::fs::create_dir_all(config.ledger_db).expect(..)
NetMkdir ==
    /\ pc = "net_mkdir"
    /\ \E ok \in BOOLEAN :
          IF ok
          THEN /\ dir' = TRUE
               /\ effects' = effects \cup {"create_dir"}
               /\ pc' = "net_create"
               /\ UNCHANGED returned
          ELSE Panics("Could not create ledger dir") /\ UNCHANGED <<dir, effects>>
    /\ UNCHANGED <<ledger, bootstrap, resizeVars, rangeVars, convVars>>

\* Line 152: LedgerDB::create(config.ledger_db).expect(..); what it leaves of
\* a file that was corrupt or unreadable is not known.
NetCreate ==
    /\ pc = "net_create"
    /\ \E ok \in BOOLEAN :
          IF ok
          THEN /\ ledger' \in IF ledger.kind \in {"corrupt", "unreadable"}
                              THEN {ledger, LedgerOf(0)}
                              ELSE {LedgerOf(ledger.blocks)}
               /\ effects' = effects \cup {"create"}
               /\ pc' = "net_fetch"
               /\ UNCHANGED returned
          ELSE Panics("Could not create ledger_db") /\ UNCHANGED <<ledger, effects>>
    /\ UNCHANGED <<dir, bootstrap, resizeVars, rangeVars, convVars>>

\* Lines 153-155: transactions_fetcher.get_origin_block_and_transactions().expect(..)
NetFetch ==
    /\ pc = "net_fetch"
    /\ \E ok \in BOOLEAN :
          IF ok
          THEN /\ effects' = effects \cup {"fetch"}
               /\ pc' = "net_open"
               /\ UNCHANGED returned
          ELSE Panics("Failed to download initial transactions") /\ UNCHANGED effects
    /\ UNCHANGED <<ledger, dir, bootstrap, resizeVars, rangeVars, convVars>>

\* Lines 156-157: LedgerDB::open(config.ledger_db).expect(..)
NetOpen ==
    /\ pc = "net_open"
    /\ IF LedgerDB_open(ledger)
       THEN pc' = "net_append" /\ UNCHANGED returned
       ELSE Panics("Could not open ledger_db")
    /\ UNCHANGED <<ledger, dir, bootstrap, effects, resizeVars, rangeVars, convVars>>

\* Lines 158-160: db.append_block(&block, &transactions, None).expect(..)
NetAppend ==
    /\ pc = "net_append"
    /\ \E ok \in BOOLEAN :
          IF ok
          THEN /\ ledger' = IF ledger.kind = "ledger"
                            THEN LedgerOf(ledger.blocks + 1)
                            ELSE ledger
               /\ effects' = effects \cup {"append"}
               /\ pc' = "final"
               /\ UNCHANGED returned
          ELSE Panics("Failed to appened initial transactions") /\ UNCHANGED <<ledger, effects>>
    /\ UNCHANGED <<dir, bootstrap, resizeVars, rangeVars, convVars>>

\* Faulty variant of FinalOpen: an empty ledger is not refused.
FinalOpen_no_empty_check ==
    /\ pc = "final"
    /\ IF ~LedgerDB_open(ledger)
       THEN Panics("Could not open ledger db")
       ELSE IF num_blocks(ledger).tag # "Ok"
       THEN Panics("Failed getting number of blocks")
       ELSE \E txos_ok \in BOOLEAN :
               IF txos_ok
               THEN returned' = Ok(ledger) /\ pc' = "done"
               ELSE Panics("Failed getting number of txos")
    /\ UNCHANGED <<ledger, dir, bootstrap, effects, resizeVars, rangeVars, convVars>>

\* Lines 164-184: open the ledger and verify it has (at least) the origin block.
FinalOpen ==
    /\ pc = "final"
    /\ IF ~LedgerDB_open(ledger)
       THEN Panics("Could not open ledger db")
       ELSE IF num_blocks(ledger).tag # "Ok"
       THEN Panics("Failed getting number of blocks")
       ELSE IF num_blocks(ledger).val = 0
       THEN Panics("Ledger DB is empty :(")
       ELSE \E txos_ok \in BOOLEAN :
               IF txos_ok
               THEN returned' = Ok(ledger) /\ pc' = "done"
               ELSE Panics("Failed getting number of txos")
    /\ UNCHANGED <<ledger, dir, bootstrap, effects, resizeVars, rangeVars, convVars>>

NextLedger ==
    \/ OpenExisting
    \/ BootstrapMkdir
    \/ BootstrapCopy
    \/ NetMkdir
    \/ NetCreate
    \/ NetFetch
    \/ NetOpen
    \/ NetAppend
    \/ FinalOpen

SpecLedger == InitLedger /\ [][NextLedger]_vars

(***************************************************************************)
(* Properties.                                                             *)
(***************************************************************************)
\* The powers of two, and the smallest one that is at least n.
Pow2Set == {Pow2(k) : k \in 0..(UsizeBits + 1)}

SmallestPow2AtLeast(n) ==
    CHOOSE p \in Pow2Set : p >= n /\ \A q \in Pow2Set : q >= n => p <= q

\* s followed by copies of its last entry, up to the smallest power of two.
PaddedWithLast(s) ==
    [i \in 1..SmallestPow2AtLeast(Len(s)) |-> IF i <= Len(s) THEN s[i] ELSE s[Len(s)]]

\* C1: for a slice of length n >= 1 whose next power of two the length type
\* holds, resize_slice_to_pow2 returns Ok with a vector whose length is the
\* smallest power of two >= n, whose first n entries are the slice's, and
\* whose other entries equal the slice's last entry; a slice whose length is
\* a power of two is returned unchanged.
C1_PadContract ==
    (resized.tag # "Idle" /\ Len(slice) >= 1 /\ Len(slice) <= Pow2(UsizeBits - 1)) =>
        /\ resized.tag = "Ok"
        /\ Len(resized.val) = SmallestPow2AtLeast(Len(slice))
        /\ \A i \in 1..Len(slice) : resized.val[i] = slice[i]
        /\ \A i \in (Len(slice) + 1)..Len(resized.val) : resized.val[i] = slice[Len(slice)]
        /\ (Len(slice) \in Pow2Set => resized.val = slice)

\* A slice of five distinct entries has been padded to eight.
C1_Witness ==
    /\ resized.tag = "Ok"
    /\ slice = Ramp(5)
    /\ Len(resized.val) = 8

\* The batch sizes the claim C6 covers: n values, n blindings, n >= 1, and the
\* padded n within the supported aggregation width.
SupportedBatch ==
    /\ Len(values) = Len(serials)
    /\ Len(values) >= 1
    /\ SmallestPow2AtLeast(Len(values)) <= PartyCapacity

\* C6: for n >= 1 values with n blindings, n within the supported aggregation
\* width, generate_range_proofs returns a proof and commitments, and
\* check_range_proofs on that proof and those commitments returns Ok.
C6_GenerateThenCheck ==
    /\ (generated.tag # "Idle" /\ SupportedBatch) => generated.tag = "Ok"
    /\ (checked.tag # "Idle" /\ SupportedBatch
            /\ commitments = generated.val.commitments) => checked.tag = "Ok"

\* A batch of three (which needs padding) has been generated and verified.
C6_Witness ==
    /\ Len(values) = 3
    /\ Len(serials) = 3
    /\ checked.tag = "Ok"
    /\ commitments = generated.val.commitments

\* C7: check_range_proofs does not return Ok when the commitments it is given,
\* padded, differ from the padded commitments the proof was generated for: it
\* returns a range proof error.
C7_WrongCommitmentsRejected ==
    /\ checked.tag = "Ok" =>
           /\ Len(commitments) >= 1
           /\ PaddedWithLast(commitments) = generated.val.commitments
    /\ (checked.tag # "Idle" /\ Len(commitments) >= 1
            /\ PaddedWithLast(commitments) # generated.val.commitments) =>
           /\ checked.tag = "Err"
           /\ checked.err[1] = "RangeProofError"

\* The list returned by generate_range_proofs, with exactly one commitment
\* replaced by a commitment to another value, has been rejected.
C7_Witness ==
    /\ checked.tag = "Err"
    /\ Len(commitments) = Len(generated.val.commitments)
    /\ Len(commitments) = 4
    /\ \A i \in 1..Len(commitments) : IsPoint(commitments[i])
    /\ Cardinality({i \in 1..Len(commitments) :
                       commitments[i] # generated.val.commitments[i]}) = 1
    /\ \E i \in 1..Len(commitments) :
          /\ commitments[i].value # generated.val.commitments[i].value
          /\ commitments[i].blinding = generated.val.commitments[i].blinding

\* C9: check_range_proofs returns Ok or an error for every proof and every
\* commitment list, the empty list included; it never panics.
C9_CheckNeverPanics ==
    checked.tag # "Idle" => checked.tag \in {"Ok", "Err"}

\* C10: generate_range_proofs returns a proof only when values and blindings
\* have equal, non-zero lengths.
C10_ProofOnlyForEqualLengths ==
    generated.tag = "Ok" => (Len(values) = Len(serials) /\ Len(values) >= 1)

\* A TxProposal message has been decoded.
TxProposalDecoded == conv = "TxProposal" /\ pc \in {"done", "roundtrip"}

\* C2: a TxProposal message that decodes to Ok has its declared fee equal to
\* the fee of tx, a map of exactly outlays.len() entries, every key <
\* outlays.len(), every value < tx.prefix.outputs.len(), and exactly one entry
\* for every outlay index; so has the decoded proposal.
C2_AcceptedProposalInvariants ==
    (TxProposalDecoded /\ decoded.tag = "Ok") =>
        LET p == decoded.val
            m == p.outlay_index_to_tx_out_index
            pm == proto.outlay_index_to_tx_out_index
        IN  /\ proto.fee = proto.tx.prefix.fee
            /\ proto.fee = p.tx.prefix.fee
            /\ Cardinality(DOMAIN m) = Len(p.outlays)
            /\ \A k \in DOMAIN m : k < Len(p.outlays)
            /\ \A k \in DOMAIN m : m[k] < Len(p.tx.prefix.outputs)
            /\ \A i \in 0..(Len(p.outlays) - 1) :
                  Cardinality({k \in DOMAIN m : k = i}) = 1
            /\ Cardinality(DOMAIN pm) = Len(proto.outlay_list)
            /\ \A k \in DOMAIN pm : k < Len(proto.outlay_list)
            /\ \A k \in DOMAIN pm : pm[k] < Len(proto.tx.prefix.outputs)

\* A message with two outlays and no value behind it has been accepted.
C2_Witness ==
    /\ TxProposalDecoded
    /\ pc = "done"
    /\ decoded.tag = "Ok"
    /\ Len(decoded.val.outlays) = 2
    /\ Len(decoded.val.utxos) = 1

\* C3: a TxProposal message whose declared fee differs from the fee of its
\* tx decodes to FeeMismatch, whatever else is wrong with it.
C3_FeeMismatchFirst ==
    (TxProposalDecoded /\ proto.fee # proto.tx.prefix.fee) =>
        decoded = Err(<<"FeeMismatch">>)

\* A message whose fee is off by one, whose input, outlay and tx are
\* malformed and whose map is out of bounds has been refused for its fee.
C3_Witness ==
    /\ TxProposalDecoded
    /\ decoded = Err(<<"FeeMismatch">>)
    /\ proto.fee = proto.tx.prefix.fee + 1
    /\ \E i \in 1..Len(proto.input_list) : proto.input_list[i].tx_out.bytes = BadBytes
    /\ \E i \in 1..Len(proto.outlay_list) : proto.outlay_list[i].receiver.bytes = BadBytes
    /\ \E i \in 1..Len(proto.tx.prefix.outputs) : proto.tx.prefix.outputs[i].bytes = BadBytes
    /\ \E k \in DOMAIN proto.outlay_index_to_tx_out_index : k >= Len(proto.outlay_list)

\* The inputs, the outlays and the tx of the message are well-formed.
WellFormedParts ==
    /\ \A i \in 1..Len(proto.input_list) :
          /\ proto.input_list[i].tx_out.bytes # BadBytes
          /\ proto.input_list[i].key_image.bytes # BadBytes
    /\ \A i \in 1..Len(proto.outlay_list) : proto.outlay_list[i].receiver.bytes # BadBytes
    /\ \A i \in 1..Len(proto.tx.prefix.outputs) : proto.tx.prefix.outputs[i].bytes # BadBytes

\* The map of the message has the wrong number of entries, a key that is no
\* outlay index or a value that is no output index.
IndicesOutOfBounds ==
    LET pm == proto.outlay_index_to_tx_out_index
    IN  \/ Cardinality(DOMAIN pm) # Len(proto.outlay_list)
        \/ \E k \in DOMAIN pm : k >= Len(proto.outlay_list)
        \/ \E k \in DOMAIN pm : pm[k] >= Len(proto.tx.prefix.outputs)

\* C4: a TxProposal message with a matching fee and well-formed inputs,
\* outlays and tx decodes to IndexOutOfBounds when its map is out of bounds,
\* and to Ok otherwise.
C4_IndexOutOfBounds ==
    (TxProposalDecoded /\ proto.fee = proto.tx.prefix.fee /\ WellFormedParts) =>
        /\ IndicesOutOfBounds => decoded = Err(<<"IndexOutOfBounds">>)
        /\ ~IndicesOutOfBounds => decoded.tag = "Ok"

\* A message whose only fault is a key equal to outlays.len() has been refused.
C4_Witness ==
    LET pm == proto.outlay_index_to_tx_out_index
    IN  /\ TxProposalDecoded
        /\ proto.fee = proto.tx.prefix.fee
        /\ WellFormedParts
        /\ decoded = Err(<<"IndexOutOfBounds">>)
        /\ Len(proto.outlay_list) >= 1
        /\ Cardinality(DOMAIN pm) = Len(proto.outlay_list)
        /\ Len(proto.outlay_list) \in DOMAIN pm
        /\ \A k \in DOMAIN pm : pm[k] < Len(proto.tx.prefix.outputs)

\* C8: a TxProposal message in which two outlay indices map to the same
\* output index does not decode to Ok.
C8_MappingOneToOne ==
    (TxProposalDecoded /\ decoded.tag = "Ok") =>
        LET m == decoded.val.outlay_index_to_tx_out_index
        IN  \A i, j \in DOMAIN m : i # j => m[i] # m[j]

\* The map of a proposal respects the bounds of its outlays and outputs.
IndexInvariant(p) ==
    LET m == p.outlay_index_to_tx_out_index
    IN  /\ Cardinality(DOMAIN m) = Len(p.outlays)
        /\ \A k \in DOMAIN m : k < Len(p.outlays) /\ m[k] < Len(p.tx.prefix.outputs)

\* C5, as stated: encoding any value and decoding the message gives Ok of
\* the value.
C5_RoundTripAny ==
    pc = "roundtrip" => (decoded.tag = "Ok" /\ decoded.val = rust)

\* C5, amended: encoding a value and decoding the message gives Ok of the
\* value for every UnspentTxOut, every Outlay, and every TxProposal whose map
\* respects the bounds; for any other TxProposal it gives IndexOutOfBounds.
C5_RoundTrip ==
    pc = "roundtrip" =>
        IF conv = "TxProposal" /\ ~IndexInvariant(rust)
        THEN decoded = Err(<<"IndexOutOfBounds">>)
        ELSE decoded.tag = "Ok" /\ decoded.val = rust

\* A proposal with an input, two outlays and a two-entry map has made the
\* round trip.
C5_Witness ==
    /\ pc = "roundtrip"
    /\ conv = "TxProposal"
    /\ decoded.tag = "Ok"
    /\ decoded.val = rust
    /\ Len(rust.utxos) = 1
    /\ Len(rust.outlays) = 2
    /\ Cardinality(DOMAIN rust.outlay_index_to_tx_out_index) = 2

\* C11: for n >= 1 values and n blindings within the supported aggregation
\* width, generate_range_proofs returns P commitments, P the smallest power of
\* two >= n; commitment i commits to (values[i], blindings[i]) for i <= n, and
\* every later commitment commits to the last pair and so equals commitment n.
C11_PaddedWithLastPair ==
    (generated.tag # "Idle" /\ SupportedBatch) =>
        /\ generated.tag = "Ok"
        /\ LET n == Len(values)
               cs == generated.val.commitments
           IN  /\ Len(cs) = SmallestPow2AtLeast(n)
               /\ \A i \in 1..n : cs[i] = Commit(values[i], serials[i].scalar)
               /\ \A i \in (n + 1)..Len(cs) :
                     /\ cs[i] = Commit(values[n], serials[n].scalar)
                     /\ cs[i] = cs[n]

\* Three pairs whose last differs from the first in value and in blinding
\* have been committed to, and the fourth commitment is the filler.
C11_Witness ==
    /\ generated.tag = "Ok"
    /\ Len(values) = 3
    /\ Len(serials) = 3
    /\ values[1] # values[3]
    /\ serials[1] # serials[3]
    /\ Len(generated.val.commitments) = 4

\* C12: on a non-empty slice resize_slice_to_pow2 returns the ResizeError
\* error, and no vector, exactly when the next power of two does not fit the
\* length type, that is when the length exceeds 2^(w-1); otherwise it returns Ok.
C12_ResizeErrorOnOverflow ==
    (resized.tag # "Idle" /\ Len(slice) >= 1) =>
        IF Len(slice) > Pow2(UsizeBits - 1)
        THEN resized = Err(<<"ResizeError">>)
        ELSE resized.tag = "Ok"

\* A slice one entry longer than the largest power of two has been refused.
C12_Witness ==
    /\ Len(slice) = Pow2(UsizeBits - 1) + 1
    /\ resized = Err(<<"ResizeError">>)

\* The environment of create_or_open_ledger_db is left as it was.
NothingDone ==
    /\ ledger' = ledger
    /\ dir' = dir
    /\ effects' = {}

\* C13, as stated: a returned ledger has at least one block, and a ledger
\* that opens with num_blocks > 0 is returned as it is, with no directory
\* created, nothing copied, no ledger created and nothing fetched.
C13_ReturnedAsIs ==
    /\ [](returned.tag = "Ok" => returned.val.blocks >= 1)
    /\ [][(pc = "open" /\ OpensWithBlocks) =>
             (returned' = Ok(ledger) /\ NothingDone)]_vars

\* C13, amended: the function ends by returning a ledger of at least one
\* block or by panicking; and when the ledger opens with num_blocks > 0 then,
\* with no directory created, nothing copied, no ledger created and nothing
\* fetched, that ledger is returned, or the function panics because the
\* number of txos cannot be read.
C13_NeverEmpty ==
    /\ [](returned.tag = "Ok" =>
             /\ returned.val = ledger
             /\ ledger.kind = "ledger"
             /\ ledger.blocks >= 1)
    /\ [](pc = "done" => returned.tag \in {"Ok", "Panic"})
    /\ [][(pc = "open" /\ OpensWithBlocks) =>
             /\ NothingDone
             /\ pc' = "done"
             /\ \/ returned' = Ok(ledger)
                \/ returned' = Panic("Failed getting number of txos")]_vars

\* A ledger that had blocks has been returned as it was found.
C13_Witness ==
    /\ pc = "done"
    /\ returned = Ok(ledger)
    /\ effects = {}
    /\ bootstrap.kind = "ledger"

====
